---- MODULE Spec2Model ----
(***************************************************************************)
(* Theme preference controller of the site (theme.js): switchTheme flips   *)
(* the "light-mode" class of document.body, stores the resulting theme     *)
(* under the localStorage key "selectedTheme" and sets the class of the    *)
(* element with id "toggle"; loadTheme reads the key and calls switchTheme *)
(* when it reads "light".                                                  *)
(*                                                                         *)
(* Spec is the nominal environment: localStorage.setItem succeeds and the  *)
(* element with id "toggle" exists.  SpecFail adds handlers in which       *)
(* setItem throws; SpecNoIcon is a page without that element; SpecTabs     *)
(* adds a second page of the same origin.                                  *)
(***************************************************************************)
EXTENDS Naturals, Sequences, FiniteSets

VARIABLES
    classList,      \* document.body.classList, a set of class names
    className,      \* className of the element with id "toggle"
    localStorage,   \* origin-scoped store, a function from keys to strings
    log,            \* DOM/storage calls made by the most recent handler
    hist,           \* the most recent handlers and the state each started in
    ran,            \* a handler has completed since the last page load
    thrown,         \* exception that escaped the most recent handler
    toggled,        \* switchTheme has executed at some time
    phase,          \* "fresh", "settled" (first loadTheme, then clicks), "other"
    ref,            \* the page under the setMode-based controller
    other           \* a second page of the same origin

vars == <<classList, className, localStorage, log, hist, ran,
          thrown, toggled, phase, ref, other>>

\* Number of past handlers remembered in hist.
MaxHist == 3

\* ------------------------------------------------------------------------
\* Literals of theme.js

LightModeClass == "light-mode"
SelectedTheme == "selectedTheme"
Light == "light"
Dark == "dark"
Moon == "fa-solid fa-moon"
Sun == "fa-solid fa-sun"

\* Values the store may hold for the key when a page is opened; "purple"
\* stands for any string other than "light" and "dark".
StoredValues == {Light, Dark, "purple"}

\* ------------------------------------------------------------------------
\* Host platform: Storage and DOMTokenList

EmptyStorage == [k \in {} |-> Light]

\* Storage.getItem: the value as a one-element sequence, <<>> for null.
getItem(s, k) == IF k \in DOMAIN s THEN <<s[k]>> ELSE <<>>

setItemKeep(s, k, v) == [x \in (DOMAIN s) \cup {k} |-> IF x \in DOMAIN s THEN s[x] ELSE v]

\* Storage.setItem: creates the key or overwrites its value.
setItem(s, k, v) == [x \in (DOMAIN s) \cup {k} |-> IF x = k THEN v ELSE s[x]]

ClassListAdd(cl, token) == [list |-> cl \cup {token}, result |-> TRUE]

\* DOMTokenList.toggle: removes the token and returns false when present,
\* adds it and returns true when absent.
ClassListToggle(cl, token) ==
    IF token \in cl
    THEN [list |-> cl \ {token}, result |-> FALSE]
    ELSE [list |-> cl \cup {token}, result |-> TRUE]

Event(e, a) == [ev |-> e, arg |-> a]

\* ------------------------------------------------------------------------
\* theme.js

ThemeValueSwapped(isLightEnabled) == IF isLightEnabled THEN Dark ELSE Light

\* The value passed to localStorage.setItem in the two branches.
ThemeValue(isLightEnabled) == IF isLightEnabled THEN Light ELSE Dark

IconClassSameState(isLightEnabled) == IF isLightEnabled THEN Sun ELSE Moon

\* The value assigned to icon.className in the two branches.
IconClass(isLightEnabled) == IF isLightEnabled THEN Moon ELSE Sun

None == "none"
QuotaExceededError == "QuotaExceededError"
TypeError == "TypeError"

\* Variants of switchTheme with its statements in another order, or reading
\* the store.
switchThemeStoreFirst(d) ==
    LET isLightEnabled == LightModeClass \notin d.classList
    IN  IF d.full THEN [d EXCEPT !.thrown = QuotaExceededError]
        ELSE [d EXCEPT !.storage = setItem(@, SelectedTheme, ThemeValue(isLightEnabled)),
                       !.classList = ClassListToggle(@, LightModeClass).list,
                       !.className = IconClass(isLightEnabled),
                       !.log = @ \o << Event("setItem", ThemeValue(isLightEnabled)),
                                       Event("toggle", LightModeClass),
                                       Event("className", IconClass(isLightEnabled)) >>]

switchThemeGlyphFirst(d) ==
    LET t == ClassListToggle(d.classList, LightModeClass)
        isLightEnabled == t.result
        d1 == [d EXCEPT !.classList = t.list,
                        !.className = IconClass(isLightEnabled),
                        !.log = @ \o << Event("toggle", LightModeClass),
                                        Event("className", IconClass(isLightEnabled)) >>]
    IN  IF d.full THEN [d1 EXCEPT !.thrown = QuotaExceededError]
        ELSE [d1 EXCEPT !.storage = setItem(@, SelectedTheme, ThemeValue(isLightEnabled)),
                        !.log = Append(@, Event("setItem", ThemeValue(isLightEnabled)))]

switchThemeFromStore(d) ==
    LET isLightEnabled == getItem(d.storage, SelectedTheme) # <<Light>>
    IN  [d EXCEPT !.classList = IF isLightEnabled THEN @ \cup {LightModeClass}
                                                  ELSE @ \ {LightModeClass},
                  !.storage = setItem(@, SelectedTheme, ThemeValue(isLightEnabled)),
                  !.className = IconClass(isLightEnabled),
                  !.log = @ \o << Event("toggle", LightModeClass),
                                  Event("setItem", ThemeValue(isLightEnabled)),
                                  Event("className", IconClass(isLightEnabled)) >>]

switchThemeIconBeforeStore(d) ==
    LET t == ClassListToggle(d.classList, LightModeClass)
        isLightEnabled == t.result
        d1 == [d EXCEPT !.classList = t.list,
                        !.log = Append(@, Event("toggle", LightModeClass))]
        d2 == [d1 EXCEPT !.className = IconClass(isLightEnabled),
                         !.log = Append(@, Event("className", IconClass(isLightEnabled)))]
    IN  IF ~d.icon
        THEN [d1 EXCEPT !.thrown = TypeError,
                        !.log = Append(@, Event("className throws", IconClass(isLightEnabled)))]
        ELSE IF d.full
        THEN [d2 EXCEPT !.thrown = QuotaExceededError,
                        !.log = Append(@, Event("setItem throws", ThemeValue(isLightEnabled)))]
        ELSE [d2 EXCEPT !.storage = setItem(@, SelectedTheme, ThemeValue(isLightEnabled)),
                        !.log = Append(@, Event("setItem", ThemeValue(isLightEnabled)))]

\* d is the page: [classList, className, storage, log, thrown] and its
\* environment: d.full (setItem throws) and d.icon (the element with id
\* "toggle" exists).  The class is flipped first; an exception thrown by
\* setItem, or by the assignment to the className of a null icon, ends the
\* function and escapes it.
switchTheme(d) ==
    LET t == ClassListToggle(d.classList, LightModeClass)
        isLightEnabled == t.result
        d1 == [d EXCEPT !.classList = t.list,
                        !.log = Append(@, Event("toggle", LightModeClass))]
        d2 == [d1 EXCEPT !.storage = setItem(@, SelectedTheme, ThemeValue(isLightEnabled)),
                         !.log = Append(@, Event("setItem", ThemeValue(isLightEnabled)))]
        d3 == [d2 EXCEPT !.className = IconClass(isLightEnabled),
                         !.log = Append(@, Event("className", IconClass(isLightEnabled)))]
    IN  IF d.full
        THEN [d1 EXCEPT !.thrown = QuotaExceededError,
                        !.log = Append(@, Event("setItem throws", ThemeValue(isLightEnabled)))]
        ELSE IF ~d.icon
        THEN [d2 EXCEPT !.thrown = TypeError,
                        !.log = Append(@, Event("className throws", IconClass(isLightEnabled)))]
        ELSE d3

loadThemeNever(d) ==
    [d EXCEPT !.log = Append(@, Event("getItem", SelectedTheme))]

loadThemeNotDark(d) ==
    LET theme == getItem(d.storage, SelectedTheme)
        d1 == [d EXCEPT !.log = Append(@, Event("getItem", SelectedTheme))]
    IN  IF theme # <<Dark>> THEN switchTheme(d1) ELSE d1

loadThemeTwice(d) ==
    LET theme == getItem(d.storage, SelectedTheme)
        d1 == [d EXCEPT !.log = Append(@, Event("getItem", SelectedTheme))]
        d2 == switchTheme(d1)
    IN  IF theme = <<Light>>
        THEN (IF d2.thrown = None THEN switchTheme(switchTheme(d2)) ELSE d2)
        ELSE d1

loadThemeWriteDefault(d) ==
    LET theme == getItem(d.storage, SelectedTheme)
        d1 == [d EXCEPT !.log = Append(@, Event("getItem", SelectedTheme))]
    IN  IF theme = <<Light>> THEN switchTheme(d1)
        ELSE IF theme = << >>
             THEN [d1 EXCEPT !.storage = setItem(@, SelectedTheme, Dark),
                             !.log = Append(@, Event("setItem", Dark))]
             ELSE d1

loadTheme(d) ==
    LET theme == getItem(d.storage, SelectedTheme)
        d1 == [d EXCEPT !.log = Append(@, Event("getItem", SelectedTheme))]
    IN  IF theme = <<Light>> THEN switchTheme(d1) ELSE d1

\* ------------------------------------------------------------------------
\* The controller built on a "set mode" primitive (design notes), as a
\* function of the page view v: [classList, className, storage].

resolve(stored) == IF stored = <<Light>> THEN Light ELSE Dark

\* Sets the class and the glyph of the page; does not touch the store.
setMode(v, mode) ==
    [v EXCEPT !.classList = IF mode = Light THEN @ \cup {LightModeClass}
                                            ELSE @ \ {LightModeClass},
              !.className = IconClass(mode = Light)]

toggleRef(v) ==
    LET mode == IF LightModeClass \in v.classList THEN Dark ELSE Light
    IN  [setMode(v, mode) EXCEPT !.storage = setItem(@, SelectedTheme, mode)]

applyOnLoadRef(v) == setMode(v, resolve(getItem(v.storage, SelectedTheme)))

\* ------------------------------------------------------------------------
\* The page

\* The document as rendered from the markup, before any script has run.
DefaultClassList == {}
DefaultClassName == Sun

Page == [classList |-> classList, className |-> className,
         storage |-> localStorage, log |-> << >>, thrown |-> None,
         full |-> FALSE, icon |-> TRUE]

View == [classList |-> classList, className |-> className,
         storage |-> localStorage]

Push(h, r) == IF Len(h) < MaxHist THEN Append(h, r) ELSE Append(Tail(h), r)

\* fresh: no handler had run on the page when this one started.
Record(op) == hist' = Push(hist, [op |-> op, pre |-> View, fresh |-> ~ran])

Install(d) ==
    /\ classList' = d.classList
    /\ className' = d.className
    /\ localStorage' = d.storage
    /\ log' = d.log
    /\ thrown' = d.thrown

Init ==
    /\ classList = DefaultClassList
    /\ className = DefaultClassName
    /\ localStorage \in {EmptyStorage} \cup
                        {setItem(EmptyStorage, SelectedTheme, v) : v \in StoredValues}
    /\ log = << >>
    /\ hist = << >>
    /\ ran = FALSE
    /\ thrown = None
    /\ toggled = FALSE
    /\ phase = "fresh"
    /\ ref = [classList |-> DefaultClassList, className |-> DefaultClassName,
              storage |-> localStorage]
    /\ other = [classList |-> DefaultClassList, className |-> DefaultClassName]

Ran(l) == \E i \in DOMAIN l : l[i].ev = "toggle"

\* A handler of this page ran and left d.
Handled(d, op) ==
    /\ Install(d)
    /\ Record(op)
    /\ ran' = TRUE
    /\ toggled' = (toggled \/ Ran(d.log))
    /\ UNCHANGED other

\* The click handler of the toggle element calls switchTheme().
Click ==
    /\ Handled(switchTheme(Page), "click")
    /\ phase' = IF phase = "settled" THEN "settled" ELSE "other"
    /\ ref' = toggleRef(ref)

\* The load handler of the page calls loadTheme().
OnLoad ==
    /\ Handled(loadTheme(Page), "load")
    /\ phase' = IF phase = "fresh" THEN "settled" ELSE "other"
    /\ ref' = applyOnLoadRef(ref)

\* The page is reloaded: a new document, the same store.
Reload ==
    /\ classList' = DefaultClassList
    /\ className' = DefaultClassName
    /\ log' = << >>
    /\ Record("reload")
    /\ ran' = FALSE
    /\ thrown' = None
    /\ phase' = "fresh"
    /\ ref' = [classList |-> DefaultClassList, className |-> DefaultClassName,
               storage |-> ref.storage]
    /\ UNCHANGED <<localStorage, toggled, other>>

Next == Click \/ OnLoad \/ Reload

Spec == Init /\ [][Next]_vars

\* ------------------------------------------------------------------------
\* The store refuses the write (quota exceeded, storage disabled)

PageFull == [Page EXCEPT !.full = TRUE]

ClickQuota ==
    /\ Handled(switchTheme(PageFull), "clickQuota")
    /\ phase' = "other"
    /\ UNCHANGED ref

OnLoadQuota ==
    /\ Handled(loadTheme(PageFull), "loadQuota")
    /\ phase' = "other"
    /\ UNCHANGED ref

NextFail == Click \/ OnLoad \/ Reload \/ ClickQuota \/ OnLoadQuota

SpecFail == Init /\ [][NextFail]_vars

\* ------------------------------------------------------------------------
\* A page whose markup has no element with id "toggle"

PageNoIcon == [Page EXCEPT !.icon = FALSE]

ClickNoIcon ==
    /\ Handled(switchTheme(PageNoIcon), "clickNoIcon")
    /\ phase' = "other"
    /\ UNCHANGED ref

OnLoadNoIcon ==
    /\ Handled(loadTheme(PageNoIcon), "loadNoIcon")
    /\ phase' = "other"
    /\ UNCHANGED ref

NextNoIcon == ClickNoIcon \/ OnLoadNoIcon \/ Reload

SpecNoIcon == Init /\ [][NextNoIcon]_vars

\* ------------------------------------------------------------------------
\* A second page of the same origin, sharing localStorage

OtherPage == [Page EXCEPT !.classList = other.classList,
                          !.className = other.className]

\* A handler of the second page ran and left d.
HandledOther(d, op) ==
    /\ other' = [classList |-> d.classList, className |-> d.className]
    /\ localStorage' = d.storage
    /\ log' = d.log
    /\ thrown' = d.thrown
    /\ Record(op)
    /\ toggled' = (toggled \/ Ran(d.log))
    /\ phase' = "other"
    /\ UNCHANGED <<classList, className, ran, ref>>

Click2 == HandledOther(switchTheme(OtherPage), "click2")

OnLoad2 == HandledOther(loadTheme(OtherPage), "load2")

Reload2 ==
    /\ other' = [classList |-> DefaultClassList, className |-> DefaultClassName]
    /\ log' = << >>
    /\ thrown' = None
    /\ Record("reload2")
    /\ phase' = "other"
    /\ UNCHANGED <<classList, className, localStorage, ran, toggled, ref>>

NextTabs == Click \/ OnLoad \/ Reload \/ Click2 \/ OnLoad2 \/ Reload2

SpecTabs == Init /\ [][NextTabs]_vars

\* ------------------------------------------------------------------------
\* Observations

VisualMode == IF LightModeClass \in classList THEN Light ELSE Dark
ModeOf(v) == IF LightModeClass \in v.classList THEN Light ELSE Dark
Preference == getItem(localStorage, SelectedTheme)
Glyph == className
N == Len(hist)
LastOp == IF hist = << >> THEN "none" ELSE hist[N].op
LastPre == hist[N].pre
PrefOf(v) == getItem(v.storage, SelectedTheme)

\* switchTheme ran in the most recent handler (called directly or by loadTheme).
SwitchThemeRan == \E i \in DOMAIN log : log[i].ev = "toggle"
Wrote(v) == \E i \in DOMAIN log : log[i] = Event("setItem", v)
WroteAny == \E i \in DOMAIN log : log[i].ev = "setItem"

\* The last k handlers were all op.
LastAre(k, op) == k <= N /\ \A i \in (N - k + 1)..N : hist[i].op = op

\* The most recent handler is a loadTheme that started on a freshly loaded page.
FreshLoad == LastOp = "load" /\ hist[N].fresh

\* ------------------------------------------------------------------------
\* C1. Glyph/mode consistency: in every reachable state the icon shows the
\* moon glyph if and only if the Visual Mode is light.
C1_GlyphModeConsistency == (Glyph = Moon) <=> (VisualMode = Light)

C1_Witness == LastOp = "click" /\ VisualMode = Light /\ Glyph = Moon

\* C2 (as claimed). In every reachable state the Visual Mode is light if and
\* only if the persisted Preference equals "light".
C2_PreferenceModeAlways == (VisualMode = Light) <=> (Preference = <<Light>>)

\* C2 (amended). Once loadTheme or switchTheme has completed on the page since
\* it was loaded, the Visual Mode is light if and only if the persisted
\* Preference equals "light".
C2_PreferenceModeOnceRan == ran => ((VisualMode = Light) <=> (Preference = <<Light>>))

C2_Witness == ran /\ LastOp = "load" /\ VisualMode = Light /\ Preference = <<Light>>

\* C3 (as claimed). After n >= 2 loadTheme calls in a row the Visual Mode and
\* the glyph are the ones the first of those calls left.
C3_LoadIdempotent ==
    \A k \in 2..N :
        LastAre(k, "load") =>
            /\ VisualMode = ModeOf(hist[N - k + 2].pre)
            /\ Glyph = hist[N - k + 2].pre.className

\* C4. Immediately after switchTheme returns, the stored value is "light" if
\* the Visual Mode is light and "dark" otherwise, whatever was stored before.
C4_StoreMatchesModeAfterToggle ==
    SwitchThemeRan =>
        /\ (Preference = <<Light>>) <=> (VisualMode = Light)
        /\ VisualMode # Light => Preference = <<Dark>>

C4_Witness ==
    /\ LastOp = "click" /\ SwitchThemeRan
    /\ PrefOf(LastPre) = <<"purple">>
    /\ Preference = <<Light>>

\* C5. Two switchTheme calls in succession return the Visual Mode to the one
\* before the first call.
C5_DoubleToggleMode == LastAre(2, "click") => VisualMode = ModeOf(hist[N - 1].pre)

C5_Witness ==
    /\ LastAre(2, "click")
    /\ ModeOf(hist[N - 1].pre) = Light
    /\ VisualMode = Light

\* C6 (as claimed). Two switchTheme calls in succession return the persisted
\* Preference and the glyph to the values they had before the first call.
C6_DoubleToggleRestoresAll ==
    LastAre(2, "click") =>
        /\ Preference = PrefOf(hist[N - 1].pre)
        /\ Glyph = hist[N - 1].pre.className

\* C6 (amended). Two switchTheme calls in succession return the glyph to the
\* value it had before the first call and leave the store holding the name of
\* the Visual Mode before the first call; the Preference is therefore restored
\* exactly when it held that name beforehand.
C6_DoubleToggleNormalizes ==
    LastAre(2, "click") =>
        /\ Glyph = hist[N - 1].pre.className
        /\ Preference = <<ModeOf(hist[N - 1].pre)>>
        /\ (Preference = PrefOf(hist[N - 1].pre))
              <=> (PrefOf(hist[N - 1].pre) = <<ModeOf(hist[N - 1].pre)>>)

C6_Witness ==
    /\ LastAre(2, "click")
    /\ PrefOf(hist[N - 1].pre) = << >>
    /\ Preference = <<Dark>>
    /\ Glyph = Sun

\* C7. Reload durability: when toggling left the page in Visual Mode M, a
\* reload followed by one loadTheme gives Visual Mode M and its glyph again.
C7_ReloadDurability ==
    (N >= 3 /\ hist[N - 2].op = "click" /\ hist[N - 1].op = "reload"
            /\ hist[N].op = "load") =>
        /\ VisualMode = ModeOf(hist[N - 1].pre)
        /\ Glyph = hist[N - 1].pre.className

C7_Witness ==
    /\ N >= 3 /\ hist[N - 2].op = "click" /\ hist[N - 1].op = "reload"
    /\ hist[N].op = "load"
    /\ ModeOf(hist[N - 1].pre) = Light
    /\ VisualMode = Light /\ Glyph = Moon

\* C8. Every switchTheme execution takes dark to light, moon, "light" and
\* light to dark, sun, "dark"; within a document the Visual Mode changes in
\* no other way.
C8_ToggleTransitions ==
    [][ /\ SwitchThemeRan' =>
              /\ VisualMode = Dark =>
                    (VisualMode' = Light /\ Glyph' = Moon /\ Preference' = <<Light>>)
              /\ VisualMode = Light =>
                    (VisualMode' = Dark /\ Glyph' = Sun /\ Preference' = <<Dark>>)
        /\ (VisualMode' # VisualMode /\ LastOp' # "reload") => SwitchThemeRan'
      ]_vars

C8_Witness ==
    /\ LastOp = "click" /\ ModeOf(LastPre) = Light
    /\ VisualMode = Dark /\ Glyph = Sun /\ Preference = <<Dark>>

\* C9. Default on absence: loadTheme on a freshly loaded page with no stored
\* key leaves Visual Mode dark and the sun glyph, and writes nothing.
C9_DefaultOnAbsence ==
    (FreshLoad /\ PrefOf(LastPre) = << >>) =>
        /\ VisualMode = Dark /\ Glyph = Sun
        /\ Preference = << >> /\ ~WroteAny

C9_Witness == FreshLoad /\ PrefOf(LastPre) = << >> /\ VisualMode = Dark /\ N >= 2

\* C10. Stored light is applied on load: loadTheme on a freshly loaded page
\* whose store holds "light" gives Visual Mode light and the moon glyph and
\* writes "light" to the store again.
C10_StoredLightApplied ==
    (FreshLoad /\ PrefOf(LastPre) = <<Light>>) =>
        /\ VisualMode = Light /\ Glyph = Moon
        /\ Preference = <<Light>> /\ Wrote(Light)

C10_Witness ==
    /\ FreshLoad /\ PrefOf(LastPre) = <<Light>>
    /\ ModeOf(LastPre) = Dark /\ LastPre.className = Sun
    /\ VisualMode = Light /\ Wrote(Light)

\* C11. Non-light values are a no-op on load: when the stored value is not
\* "light" (it is "dark", unrecognized or absent), loadTheme leaves the class,
\* the glyph and the store as they were and neither toggles nor writes; a
\* freshly loaded page therefore stays dark with the sun glyph.
C11_NonLightLoadIsNoOp ==
    (LastOp = "load" /\ PrefOf(LastPre) # <<Light>>) =>
        /\ View = LastPre
        /\ ~SwitchThemeRan /\ ~WroteAny
        /\ hist[N].fresh => (VisualMode = Dark /\ Glyph = Sun)

C11_Witness ==
    /\ FreshLoad /\ PrefOf(LastPre) = <<"purple">>
    /\ VisualMode = Dark /\ Glyph = Sun /\ Preference = <<"purple">>

\* The most recent handler called switchTheme while the store refused writes.
WriteFailed ==
    \/ LastOp = "clickQuota"
    \/ LastOp = "loadQuota" /\ PrefOf(LastPre) = <<Light>>

\* C12. Degraded mode on persistence failure: when the store write inside
\* switchTheme throws, the Visual Mode has been flipped all the same, the store
\* keeps its content and the exception escapes the handler.
C12_DegradedOnWriteFailure ==
    WriteFailed =>
        /\ VisualMode # ModeOf(LastPre)
        /\ localStorage = LastPre.storage
        /\ thrown = QuotaExceededError

C12_Witness ==
    /\ WriteFailed /\ LastOp = "clickQuota"
    /\ ModeOf(LastPre) = Light /\ VisualMode = Dark
    /\ Preference = <<Light>> /\ thrown = QuotaExceededError

\* C13. Preference lifecycle: no step deletes the key, the store is written
\* only in a handler that executes switchTheme, and a store without the key
\* stays without it until switchTheme executes.
C13_PreferenceLifecycle ==
    [][ /\ Preference # << >> => Preference' # << >>
        /\ (WroteAny' \/ localStorage' # localStorage) => SwitchThemeRan'
        /\ (Preference = << >> /\ ~SwitchThemeRan') => Preference' = << >>
      ]_vars

C13_Witness ==
    /\ LastOp = "click" /\ PrefOf(LastPre) = << >> /\ hist[N].fresh
    /\ N >= 2 /\ hist[N - 1].op = "reload"
    /\ Preference = <<Light>>

\* C14 (as claimed). After every sequence of page loads, loadTheme calls and
\* clicks, the page driven by theme.js shows the same Visual Mode and glyph as
\* the page driven by the setMode-based controller.
C14_RefactoringEquivalent ==
    /\ VisualMode = ModeOf(ref)
    /\ Glyph = ref.className

\* C15. Toggle normalizes the store: once switchTheme has executed the stored
\* value is "light" or "dark"; no step introduces another value, and another
\* value does not survive a step in which switchTheme executes.
C15_ToggleNormalizesStore ==
    /\ [](toggled => Preference \in {<<Light>>, <<Dark>>})
    /\ [][ (SwitchThemeRan' => Preference' \in {<<Light>>, <<Dark>>})
           /\ (Preference' \notin {<< >>, <<Light>>, <<Dark>>} =>
                  (Preference' = Preference /\ ~toggled'))
         ]_vars

C15_Witness ==
    /\ LastOp = "click" /\ PrefOf(LastPre) = <<"purple">>
    /\ ModeOf(LastPre) = Dark /\ ~hist[N].fresh
    /\ toggled /\ Preference = <<Light>>

\* C16 (as claimed). Whenever the stored preference is "light", a loadTheme
\* call executes switchTheme and ends with the store holding "light" and the
\* Visual Mode light.
C16_LoadRewritesLight ==
    (LastOp = "load" /\ PrefOf(LastPre) = <<Light>>) =>
        /\ SwitchThemeRan /\ Wrote(Light)
        /\ Preference = <<Light>>
        /\ VisualMode = Light

\* Store contents a page can find: no key, or any of the stored values.
Stores == {EmptyStorage} \cup {setItem(EmptyStorage, SelectedTheme, v) : v \in StoredValues}

\* C17. Toggle is independent of the store: the class, the glyph and the
\* stored value a click leaves are the ones switchTheme leaves from the same
\* page with any other store content.
C17_ToggleIgnoresStore ==
    [][ LastOp' = "click" =>
          \A s \in Stores :
              LET d == switchTheme([Page EXCEPT !.storage = s])
              IN  /\ d.classList = classList'
                  /\ d.className = className'
                  /\ d.storage = localStorage'
      ]_vars

C17_Witness ==
    /\ LastOp = "click" /\ PrefOf(LastPre) = <<Light>> /\ ModeOf(LastPre) = Dark
    /\ VisualMode = Light /\ Glyph = Moon /\ Preference = <<Light>>

\* C18. Settled consistency in a single tab: after the first loadTheme on a
\* freshly loaded page, and while only clicks follow, the Visual Mode is light
\* exactly when "light" is stored and dark exactly when anything else, or
\* nothing, is stored.
C18_SettledConsistency ==
    phase = "settled" =>
        /\ (VisualMode = Light) <=> (Preference = <<Light>>)
        /\ (VisualMode = Dark) <=> (Preference # <<Light>>)

C18_Witness ==
    /\ phase = "settled" /\ LastAre(2, "click")
    /\ VisualMode = Light /\ Preference = <<Light>>

\* C19. Partial effect on store failure: when the store write in switchTheme
\* throws, the class has been flipped and the glyph assignment is skipped, so
\* the glyph and the store keep their previous values.
C19_PartialEffectOnWriteFailure ==
    WriteFailed =>
        /\ VisualMode # ModeOf(LastPre)
        /\ Glyph = LastPre.className
        /\ localStorage = LastPre.storage
        /\ \A i \in DOMAIN log : log[i].ev # "className"

C19_Witness ==
    /\ WriteFailed /\ LastOp = "loadQuota"
    /\ VisualMode = Light /\ Glyph = Sun /\ Preference = <<Light>>

\* C20. Two pages sharing the store: after a click in either page the stored
\* value names the new mode of that page, each page keeps its glyph matching
\* its mode, and a click in one page leaves the class and the glyph of the
\* other page unchanged.
C20_TwoPages ==
    /\ [](/\ (Glyph = Moon) <=> (VisualMode = Light)
          /\ (other.className = Moon) <=> (LightModeClass \in other.classList)
          /\ LastOp = "click" => Preference = <<VisualMode>>
          /\ LastOp = "click2" => Preference = <<ModeOf(other)>>)
    /\ [][ (LastOp' = "click" => other' = other)
           /\ (LastOp' = "click2" => (classList' = classList /\ className' = className))
         ]_vars

C20_Witness ==
    /\ LastOp = "click2" /\ N >= 2 /\ hist[N - 1].op = "click"
    /\ VisualMode = Light /\ ModeOf(other) = Dark
    /\ Preference = <<Dark>>

\* Calls of one kind made by the most recent handler, throwing ones included.
Count(evs) == Cardinality({i \in DOMAIN log : log[i].ev \in evs})

Handler == LastOp \in {"click", "load", "clickQuota", "loadQuota"}

\* C21. Run-to-completion: a loadTheme handler reads the store exactly once
\* and executes switchTheme at most once; every switchTheme execution makes
\* exactly one class flip, at most one store write and at most one glyph
\* assignment; a click handler executes switchTheme exactly once and never
\* reads the store.
C21_RunToCompletion ==
    Handler =>
        /\ Count({"toggle"}) <= 1
        /\ Count({"setItem", "setItem throws"}) <= Count({"toggle"})
        /\ Count({"className", "className throws"}) <= Count({"toggle"})
        /\ Len(log) <= 4
        /\ LastOp \in {"load", "loadQuota"} =>
              /\ Count({"getItem"}) = 1 /\ log[1].ev = "getItem"
              /\ Count({"toggle"}) = 1 <=> PrefOf(LastPre) = <<Light>>
        /\ LastOp \in {"click", "clickQuota"} =>
              /\ Count({"getItem"}) = 0 /\ Count({"toggle"}) = 1

C21_Witness ==
    /\ LastOp = "load" /\ PrefOf(LastPre) = <<Light>> /\ ModeOf(LastPre) = Light
    /\ Count({"getItem"}) = 1 /\ Count({"toggle"}) = 1
    /\ Count({"setItem"}) = 1 /\ Count({"className"}) = 1

\* The most recent handler called switchTheme on a page without the element.
IconMissing ==
    \/ LastOp = "clickNoIcon"
    \/ LastOp = "loadNoIcon" /\ PrefOf(LastPre) = <<Light>>

\* C22. Missing toggle element: switchTheme on a page without the element
\* flips the Visual Mode and writes the matching value to the store before it
\* fails on the glyph assignment, so the stored Preference names the Visual
\* Mode after the failed call.
C22_MissingToggleElement ==
    IconMissing =>
        /\ VisualMode # ModeOf(LastPre)
        /\ Preference = <<VisualMode>>
        /\ Wrote(VisualMode)
        /\ thrown = TypeError
        /\ Glyph = LastPre.className

C22_Witness ==
    /\ LastOp = "clickNoIcon" /\ PrefOf(LastPre) = <<"purple">>
    /\ VisualMode = Light /\ Preference = <<Light>> /\ thrown = TypeError

====
